---- MODULE Spec2Model ----
(***************************************************************************)
(* A model of the B+Tree of package bplustree (NewBTree / Insert / Search  *)
(* / Update / Delete / NodeCount).                                         *)
(*                                                                         *)
(* The tree is modelled on a small Go heap: every slice is a window        *)
(* (arr, off, len, cap) on a backing array, so that the sub-slices a split *)
(* makes of one array, and the appends that later write through them,      *)
(* behave as they do in the program.  A run-time panic (index out of       *)
(* range, nil dereference, failed type assertion) is recorded in the       *)
(* field panicked: the process is gone and no operation follows.           *)
(***************************************************************************)
EXTENDS Integers, Sequences, FiniteSets, TLC

\* ------------------------------------------------------------------ bounds

\* the generator hands out the even keys 2, 4, .., 2 * MaxKey; callers look up
\* and pass every key of 1..2 * MaxKey + 1, so that between, below and above
\* the stored keys there is always a key no Insert used
MaxKey == 6

\* degrees a caller asks NewBTree for: MinAskedDegree..MaxAskedDegree
MinAskedDegree == 2

\* under SpecCounter the generator counts up through 2, 4, .., 2 * MaxCounterKey
MaxCounterKey == 8

MaxAskedDegree == 4

\* the goroutines that call the tree concurrently: 1..MaxCallers
MaxCallers == 2

\* the calls the callers make in one run of the actor, all callers together
MaxCommands == 4

\* the queue lengths a caller asks NewTree for: 0..MaxQueueLength
MaxQueueLength == 1

\* under SpecDuplicates the generator returns keys of 2, 4, .., 2 * MaxDupKey,
\* used or not, MaxDupInserts times at most
MaxDupKey == 3

MaxDupInserts == 6

\* under SpecGenerator the generator returns a key of 2, 4, ..,
\* 2 * MaxFallibleKey not used so far, or an error
MaxFallibleKey == 5

\* ------------------------------------------------------- program constants

OrderedAscending == -1

OrderedSame == 0

OrderedDescending == 1

MIN_DEGREE == 3

\* the nil pointer / nil interface
Nil == 0

ErrNone == "nil"

ErrNotFound == "NotFound"

ErrNotImplemented == "NotImplemented"

\* the outcome of a handler that panicked: the caller gets no result
ErrPanic == "panic"

GenKeys == {2 * i : i \in 1..MaxKey}

Keys == 1..(2 * MaxKey + 1)

CounterGenKeys == {2 * i : i \in 1..MaxCounterKey}

CounterKeys == 1..(2 * MaxCounterKey + 1)

AskedDegrees == MinAskedDegree..MaxAskedDegree

\* ------------------------------------------------------------- Go slices

\* make([]T, 0): a slice of length and capacity 0
EmptySlice == [arr |-> 0, off |-> 0, len |-> 0, cap |-> 0]

\* the elements of slice s, in order
Elems(m, s) == [i \in 1..s.len |-> m.arrays[s.arr][s.off + i]]

\* s[i], i counted from 0; the caller has checked i < len(s)
At(m, s, i) == m.arrays[s.arr][s.off + i + 1]

\* s[low:]; the caller has checked low <= len(s)
SliceFrom(s, low) ==
    [arr |-> s.arr, off |-> s.off + low, len |-> s.len - low, cap |-> s.cap - low]

\* s[:high]; the caller has checked high <= cap(s)
SliceTo(s, high) == [arr |-> s.arr, off |-> s.off, len |-> high, cap |-> s.cap]

\* the capacity append grows to when newLen elements do not fit in oldCap
GrowCap(oldCap, newLen) == IF newLen > 2 * oldCap THEN newLen ELSE 2 * oldCap

\* append(s, xs...): writes through the backing array while it has room,
\* and moves to a fresh array otherwise
GoAppend(m, s, xs) ==
    LET newLen == s.len + Len(xs) IN
    IF newLen <= s.cap
    THEN [m |-> [m EXCEPT !.arrays[s.arr] =
                    [j \in 1..Len(@) |->
                        IF j > s.off + s.len /\ j <= s.off + newLen
                        THEN xs[j - s.off - s.len] ELSE @[j]]],
          s |-> [s EXCEPT !.len = newLen]]
    ELSE LET newCap == GrowCap(s.cap, newLen)
             old == Elems(m, s)
             fresh == [j \in 1..newCap |->
                         IF j <= s.len THEN old[j]
                         ELSE IF j <= newLen THEN xs[j - s.len] ELSE Nil]
         IN [m |-> [m EXCEPT !.arrays = Append(@, fresh)],
             s |-> [arr |-> Len(m.arrays) + 1, off |-> 0, len |-> newLen, cap |-> newCap]]

\* copy(s[place+1:], s[place:]); s[place] = x, on a slice s already made one
\* element longer
ShiftIn(m, s, place, x) ==
    LET lo == s.off + place + 1
        hi == s.off + s.len
    IN [m |-> [m EXCEPT !.arrays[s.arr] =
                  [j \in 1..Len(@) |->
                      IF j = lo THEN x
                      ELSE IF j > lo /\ j <= hi THEN @[j - 1] ELSE @[j]]],
        s |-> s]

\* the three statements recordValue uses to put x at index insert:
\*   s = append(s, nil); copy(s[insert+1:], s[insert:]); s[insert] = x
\* or, when insert is -1, s = append(s, x)
InsertAt(m, s, insert, x) ==
    IF insert = -1
    THEN GoAppend(m, s, <<x>>)
    ELSE LET a == GoAppend(m, s, <<Nil>>) IN ShiftIn(a.m, a.s, insert, x)

\* ------------------------------------------------------------ comparator

\* the three-way comparison of the keys (the test suite's keyCompare)
keyCompare(lhs, rhs) ==
    IF lhs < rhs THEN OrderedAscending
    ELSE IF lhs > rhs THEN OrderedDescending
    ELSE OrderedSame

\* ------------------------------------------------------------------ tree

Panic(m) == [m EXCEPT !.panicked = TRUE]

\* the pointer newTreeNode returned last: the node's place in the heap
NewNode(m) == Len(m.nodes)

\* newTreeNode with the count kept for leaves only
newTreeNodeCountingLeaves(m, leaf) ==
    [m EXCEPT !.nodeCount = IF leaf THEN @ + 1 ELSE @,
              !.nodes = Append(@, [internalID |-> m.nodeCount + 1,
                                   leaf |-> leaf,
                                   keys |-> EmptySlice,
                                   values |-> EmptySlice,
                                   children |-> EmptySlice,
                                   parent |-> Nil,
                                   previous |-> Nil,
                                   next |-> Nil])]

\* newTreeNode(leaf)
newTreeNode(m, leaf) ==
    LET id == m.nodeCount + 1 IN
    [m EXCEPT !.nodeCount = id,
              !.nodes = Append(@, [internalID |-> id,
                                   leaf |-> leaf,
                                   keys |-> EmptySlice,
                                   values |-> EmptySlice,
                                   children |-> EmptySlice,
                                   parent |-> Nil,
                                   previous |-> Nil,
                                   next |-> Nil])]

\* the clamp of NewBTree
ClampDegree(degree) == IF degree < MIN_DEGREE THEN MIN_DEGREE ELSE degree

\* NewBTree: one empty leaf as the root
NewBTree(degree) ==
    newTreeNode([degree |-> ClampDegree(degree),
                 root |-> 1,
                 nodeCount |-> 0,
                 nodes |-> <<>>,
                 arrays |-> <<>>,
                 panicked |-> FALSE,
                 hung |-> FALSE,
                 splits |-> 0,
                 rootSplits |-> 0,
                 splitLog |-> <<>>], TRUE)

\* what a descent yields instead of a node when the program panics
\* (index out of range, nil dereference), and when it never returns
Panicked == -1

Hung == -2

\* the inner loop of findNodeForKey over n.keys from index idx on, with
\* candidateNode = cand so far; an index beyond len(n.children) panics
RECURSIVE ScanKeys(_, _, _, _, _)
ScanKeys(m, n, key, idx, cand) ==
    LET node == m.nodes[n] IN
    IF idx >= node.keys.len THEN cand
    ELSE IF keyCompare(key, At(m, node.keys, idx)) = OrderedAscending
    THEN IF idx < node.children.len THEN At(m, node.children, idx) ELSE Panicked
    ELSE IF idx + 1 < node.children.len
         THEN ScanKeys(m, n, key, idx + 1, At(m, node.children, idx + 1))
         ELSE Panicked

\* the outer loop of findNodeForKey, at node n after depth steps down; a
\* descent longer than the number of nodes is on a cycle and never ends
RECURSIVE Descend(_, _, _, _)
Descend(m, n, key, depth) ==
    IF n = Nil THEN Panicked
    ELSE IF m.nodes[n].leaf THEN n
    ELSE IF depth > m.nodeCount THEN Hung
    ELSE LET cand == ScanKeys(m, n, key, 0, Nil) IN
         IF cand = Panicked THEN Panicked ELSE Descend(m, cand, key, depth + 1)

findNodeForKey(m, key) == Descend(m, m.root, key, 0)

\* FindInsert stopping at the first key that is not less than key
RECURSIVE FindInsertAtEqual(_, _, _)
FindInsertAtEqual(ks, key, idx) ==
    IF idx > Len(ks) THEN -1
    ELSE IF keyCompare(key, ks[idx]) # OrderedDescending THEN idx - 1
    ELSE FindInsertAtEqual(ks, key, idx + 1)

\* the index recordValue inserts key at: the first idx with key < keys[idx],
\* -1 when there is none
RECURSIVE FindInsert(_, _, _)
FindInsert(ks, key, idx) ==
    IF idx > Len(ks) THEN -1
    ELSE IF keyCompare(key, ks[idx]) = OrderedAscending THEN idx - 1
    ELSE FindInsert(ks, key, idx + 1)

RECURSIVE recordValue(_, _, _, _, _)
RECURSIVE splitNode(_, _)

\* recordValue, the key: n.keys with key put at index insert
RecordKey(m, n, insert, key) ==
    LET k == InsertAt(m, m.nodes[n].keys, insert, key)
    IN [k.m EXCEPT !.nodes[n].keys = k.s]

\* recordValue on an internal node: n.children with child put at index insert
RecordChild(m, n, insert, child) ==
    LET c == InsertAt(m, m.nodes[n].children, insert, child)
    IN [c.m EXCEPT !.nodes[n].children = c.s]

\* recordValue on a leaf: n.values with value put at index insert
RecordLeafValue(m, n, insert, value) ==
    LET v == InsertAt(m, m.nodes[n].values, insert, value)
    IN [v.m EXCEPT !.nodes[n].values = v.s]

\* recordValue(key, value, n); isNode tells whether value is a *treeNode
recordValue(m, key, value, isNode, n) ==
    LET insert == FindInsert(Elems(m, m.nodes[n].keys), key, 1)
    IN IF m.nodes[n].leaf = FALSE
       THEN IF ~isNode
            THEN Panic(RecordKey(m, n, insert, key))
            ELSE splitNode(RecordChild(RecordKey(m, n, insert, key), n, insert, value), n)
       ELSE splitNode(RecordLeafValue(RecordKey(m, n, insert, key), n, insert, value), n)

\* Capacity without the leaf's "degree -= 1"
CapacityLeafAsInternal(m, leaf) == m.degree

\* the key count above which splitNode splits a node
Capacity(m, leaf) == IF leaf THEN m.degree - 1 ELSE m.degree

\* SplitPoint with the bias of the internal nodes given to the leaves too
SplitPointBiased(m, leaf) == (m.degree \div 2) + (m.degree % 2)

\* the index splitNode cuts a node at
SplitPoint(m, leaf) ==
    IF leaf THEN m.degree \div 2 ELSE (m.degree \div 2) + (m.degree % 2)

\* splitNode, the cut: sibling, just allocated, takes the keys from
\* splitPoint on and the values or children with them, n keeps the rest
SplitHalves(m, n, sibling, splitPoint) ==
    LET node == m.nodes[n]
        m2 == [m EXCEPT !.nodes[sibling].keys = SliceFrom(node.keys, splitPoint),
                        !.nodes[n].keys = SliceTo(node.keys, splitPoint),
                        !.splits = @ + 1]
    IN IF node.leaf
       THEN [m2 EXCEPT !.nodes[sibling].values = SliceFrom(node.values, splitPoint),
                       !.nodes[n].values = SliceTo(node.values, splitPoint),
                       !.nodes[sibling].previous = n,
                       !.nodes[n].next = sibling]
       ELSE [m2 EXCEPT !.nodes[sibling].children = SliceFrom(node.children, splitPoint),
                       !.nodes[n].children = SliceTo(node.children, splitPoint)]

\* the nodes of tree m reachable from the nodes of S through children
RECURSIVE ReachIn(_, _)
ReachIn(m, S) ==
    LET S2 == S \cup {c \in UNION {{At(m, m.nodes[x].children, i) :
                                       i \in 0..(m.nodes[x].children.len - 1)} :
                                    x \in {y \in S : ~m.nodes[y].leaf}} : c # Nil}
    IN IF S2 = S THEN S ELSE ReachIn(m, S2)

\* the keys in the nodes of the subtree of n in tree m
SubtreeKeysIn(m, n) ==
    UNION {{At(m, m.nodes[x].keys, i) : i \in 0..(m.nodes[x].keys.len - 1)} :
             x \in ReachIn(m, {n})}

\* the record of a split, taken right after the cut: the two nodes, the keys
\* and values n had before, the keys of each half now, and the keys under
\* each half
LogSplit(m, n, sibling, before, beforeValues) ==
    [m EXCEPT !.splitLog = Append(@,
        [n |-> n, sibling |-> sibling, leaf |-> m.nodes[n].leaf,
         before |-> before,
         beforeValues |-> beforeValues,
         left |-> Elems(m, m.nodes[n].keys),
         right |-> Elems(m, m.nodes[sibling].keys),
         leftSubtree |-> SubtreeKeysIn(m, n),
         rightSubtree |-> SubtreeKeysIn(m, sibling)])]

\* splitNode, n.parent == nil: root, just allocated, becomes the root over n
\* and sibling
NewRoot(m, root, n, sibling, first) ==
    LET rk == GoAppend(m, m.nodes[root].keys, <<first>>)
        rc == GoAppend(rk.m, m.nodes[root].children, <<n, sibling>>)
    IN [rc.m EXCEPT !.root = root,
                    !.nodes[root].keys = rk.s,
                    !.nodes[root].children = rc.s,
                    !.nodes[n].parent = root,
                    !.nodes[sibling].parent = root,
                    !.rootSplits = @ + 1]

\* splitNode, the promotion of sibling.keys[0] into a new root or into n.parent
SplitPromote(m, n, sibling) ==
    IF m.nodes[sibling].keys.len = 0 THEN Panic(m)
    ELSE IF m.nodes[n].parent = Nil
    THEN NewRoot(newTreeNode(m, FALSE), NewNode(m) + 1, n, sibling,
                 At(m, m.nodes[sibling].keys, 0))
    ELSE recordValue([m EXCEPT !.nodes[sibling].parent = m.nodes[n].parent],
                     At(m, m.nodes[sibling].keys, 0), sibling, TRUE, m.nodes[n].parent)

\* splitNode(n)
splitNode(m, n) ==
    LET node == m.nodes[n]
        degree == Capacity(m, node.leaf)
        splitPoint == SplitPoint(m, node.leaf)
    IN
    IF node.keys.len <= degree THEN m
    ELSE IF splitPoint > node.keys.len THEN Panic(m)
    ELSE IF node.leaf /\ splitPoint > node.values.len THEN Panic(m)
    ELSE IF ~node.leaf /\ splitPoint > node.children.len THEN Panic(m)
    ELSE SplitPromote(LogSplit(SplitHalves(newTreeNode(m, node.leaf), n,
                                           NewNode(m) + 1, splitPoint),
                               n, NewNode(m) + 1, Elems(m, node.keys),
                               Elems(m, node.values)),
                      n, NewNode(m) + 1)

\* the scan of search over the leaf's keys from index idx on
RECURSIVE ScanLeaf(_, _, _, _)
ScanLeaf(m, n, key, idx) ==
    LET node == m.nodes[n] IN
    IF idx >= node.keys.len THEN [value |-> Nil, err |-> ErrNotFound]
    ELSE IF keyCompare(key, At(m, node.keys, idx)) = OrderedSame
    THEN IF idx < node.values.len
         THEN [value |-> At(m, node.values, idx), err |-> ErrNone]
         ELSE [value |-> Nil, err |-> ErrPanic]
    ELSE ScanLeaf(m, n, key, idx + 1)

\* search(key): the triple sent on the caller's channel
search(m, key) ==
    LET node == findNodeForKey(m, key) IN
    IF node = Panicked THEN [value |-> Nil, err |-> ErrPanic]
    ELSE IF node = Hung THEN [value |-> Nil, err |-> "hang"]
    ELSE ScanLeaf(m, node, key, 0)

\* insert(value) with key the key the generator returned
insert(m, key, value) ==
    LET n == findNodeForKey(m, key) IN
    IF n = Panicked THEN Panic(m)
    ELSE IF n = Hung THEN [m EXCEPT !.hung = TRUE]
    ELSE recordValue([m EXCEPT !.splitLog = <<>>], key, value, FALSE, n)

\* update(key, value): the tree it leaves and the error it sends
update(m, key, value) == [m |-> m, err |-> ErrNotImplemented]

\* delete(key): the tree it leaves and the error it sends
delete(m, key) == [m |-> m, err |-> ErrNotImplemented]

\* ----------------------------------------------------------------- state

VARIABLES
    t,          \* the tree: its fields, its nodes and the backing arrays
    inserted,   \* the <<key, value>> pairs of the completed Inserts, in order
    last,       \* the last operation and the result its caller received
    worker,     \* the goroutine of processCommands: where it is, what it runs
    callers,    \* the goroutines that call the tree: where each is in its call
    queue,      \* the commands buffered in the command channel
    accepted,   \* the commands the worker received, in that order, with results
    access      \* the last access to nodeCount: by whom, when, the count seen

\* the worker and the threads of the callers
actorVars == <<worker, callers, queue, accepted, access>>

vars == <<t, inserted, last, worker, callers, queue, accepted, access>>

\* the value of the n-th Insert: values are opaque to the tree, and every
\* Insert carries its own
ValueOf(n) == 100 + n

\* the values the callers of Update pass: one an Insert stored, one no Insert did
UpdateValues == {ValueOf(1), ValueOf(0)}

InsertedKeys == {inserted[i][1] : i \in 1..Len(inserted)}

Alive == ~t.panicked /\ ~t.hung

\* the goroutine of processCommands, as a thread of the access record
Worker == 0

Callers == 1..MaxCallers

\* no command: what the worker holds between commands, a caller between calls
NoCmd == [op |-> "none", key |-> Nil, value |-> Nil, caller |-> Nil]

\* "go tree.processCommands()": the worker is in its select, with no caller
\* in a call, nothing in the command channel and nothing received yet
ActorInit ==
    /\ worker = [pc |-> "select", cmd |-> NoCmd, finals |-> 0]
    /\ callers = [c \in Callers |-> [pc |-> "idle", cmd |-> NoCmd]]
    /\ queue = <<>>
    /\ accepted = <<>>
    /\ access = [by |-> Worker, racing |-> FALSE, count |-> t.nodeCount]

Init ==
    /\ \E degree \in AskedDegrees : t = NewBTree(degree)
    /\ inserted = <<>>
    /\ last = [op |-> "NewBTree", key |-> Nil, value |-> Nil, err |-> ErrNone]
    /\ ActorInit

\* Insert(value): the generator returns a key not used so far
Insert(key) ==
    /\ Alive
    /\ key \notin InsertedKeys
    /\ UNCHANGED actorVars
    /\ LET value == ValueOf(Len(inserted) + 1)
           m == insert(t, key, value)
       IN /\ t' = m
          /\ IF m.panicked \/ m.hung
             THEN /\ inserted' = inserted
                  /\ last' = [op |-> "Insert", key |-> key, value |-> value,
                              err |-> IF m.panicked THEN ErrPanic ELSE "hang"]
             ELSE /\ inserted' = Append(inserted, <<key, value>>)
                  /\ last' = [op |-> "Insert", key |-> key, value |-> value,
                              err |-> ErrNone]

\* Search(key)
Search(key) ==
    /\ Alive
    /\ LET r == search(t, key)
       IN /\ last' = [op |-> "Search", key |-> key, value |-> r.value, err |-> r.err]
          /\ t' = IF r.err = ErrPanic THEN Panic(t)
                  ELSE IF r.err = "hang" THEN [t EXCEPT !.hung = TRUE]
                  ELSE t
    /\ UNCHANGED inserted
    /\ UNCHANGED actorVars

\* Update(key, value)
Update(key, value) ==
    /\ Alive
    /\ LET r == update(t, key, value)
       IN /\ t' = r.m
          /\ last' = [op |-> "Update", key |-> key, value |-> Nil, err |-> r.err]
    /\ UNCHANGED inserted
    /\ UNCHANGED actorVars

\* Delete(key)
Delete(key) ==
    /\ Alive
    /\ LET r == delete(t, key)
       IN /\ t' = r.m
          /\ last' = [op |-> "Delete", key |-> key, value |-> Nil, err |-> r.err]
    /\ UNCHANGED inserted
    /\ UNCHANGED actorVars

Next ==
    \/ \E key \in GenKeys : Insert(key)
    \/ \E key \in Keys : Search(key)
    \/ \E key \in GenKeys, value \in UpdateValues : Update(key, value)
    \/ \E key \in GenKeys : Delete(key)

Spec == Init /\ [][Next]_vars

\* The generator of the test suite, a counter: every key is greater than the
\* keys before it.  Fewer orders of insertion, and so deeper trees.
IsNextKey(key) == \A k \in InsertedKeys : keyCompare(k, key) = OrderedAscending

NextCounter ==
    \/ \E key \in CounterGenKeys : IsNextKey(key) /\ Insert(key)
    \/ \E key \in CounterKeys : Search(key)
    \/ \E key \in CounterGenKeys, value \in UpdateValues : Update(key, value)
    \/ \E key \in CounterGenKeys : Delete(key)

SpecCounter == Init /\ [][NextCounter]_vars

\* A generator that may return a key it has returned before.
DupGenKeys == {2 * i : i \in 1..MaxDupKey}

\* Insert(value) when the generator returns a key an earlier Insert used
InsertDuplicate(key) ==
    /\ Alive
    /\ key \in InsertedKeys
    /\ Len(inserted) < MaxDupInserts
    /\ UNCHANGED actorVars
    /\ LET value == ValueOf(Len(inserted) + 1)
           m == insert(t, key, value)
       IN /\ t' = m
          /\ IF m.panicked \/ m.hung
             THEN /\ inserted' = inserted
                  /\ last' = [op |-> "Insert", key |-> key, value |-> value,
                              err |-> IF m.panicked THEN ErrPanic ELSE "hang"]
             ELSE /\ inserted' = Append(inserted, <<key, value>>)
                  /\ last' = [op |-> "Insert", key |-> key, value |-> value,
                              err |-> ErrNone]

NextDuplicates ==
    \/ \E key \in DupGenKeys : Len(inserted) < MaxDupInserts /\ Insert(key)
    \/ \E key \in DupGenKeys : InsertDuplicate(key)
    \/ \E key \in DupGenKeys : Search(key)

SpecDuplicates == Init /\ [][NextDuplicates]_vars

\* A generator that may fail.
ErrGenerator == "generator failed"

FallibleGenKeys == {2 * i : i \in 1..MaxFallibleKey}

\* what a call of the generator may return: a key and no error, or an error
GeneratorResults ==
    {[key |-> key, err |-> ErrNone] : key \in FallibleGenKeys}
        \cup {[key |-> Nil, err |-> ErrGenerator]}

\* t.keyGenerator(t, value) returning gen, after calls earlier invocations
keyGenerator(calls, gen) == [key |-> gen.key, err |-> gen.err, calls |-> calls + 1]

\* insert, the generator failed, and a new leaf is allocated all the same
InsertFailedAllocating(m, g) ==
    [m |-> newTreeNode(m, TRUE), key |-> Nil, err |-> g.err, calls |-> g.calls]

\* insert, the generator failed: the triple carries the error and no key
InsertFailed(m, g) ==
    [m |-> m, key |-> Nil, err |-> g.err, calls |-> g.calls]

\* insert, the generator returned a key: the pair is recorded
InsertRecorded(m, g, value) ==
    [m |-> insert(m, g.key, value), key |-> g.key, err |-> ErrNone, calls |-> g.calls]

\* insert(value, channel) with gen what the generator returns: the tree it
\* leaves, the triple it sends, and the number of calls of the generator
insertTriple(m, gen, value) ==
    IF keyGenerator(0, gen).err # ErrNone
    THEN InsertFailed(m, keyGenerator(0, gen))
    ELSE InsertRecorded(m, keyGenerator(0, gen), value)

\* the call Insert(value) has ended with the tree and triple of r
InsertReturned(r, gen, value) ==
    /\ t' = r.m
    /\ inserted' = IF r.err = ErrNone /\ ~r.m.panicked /\ ~r.m.hung
                   THEN Append(inserted, <<r.key, value>>) ELSE inserted
    /\ last' = [op |-> "Insert", key |-> r.key, value |-> value,
                err |-> IF r.m.panicked THEN ErrPanic
                        ELSE IF r.m.hung THEN "hang" ELSE r.err,
                generated |-> gen, calls |-> r.calls]

\* Insert(value) with a generator that returns gen
InsertGenerated(gen) ==
    /\ Alive
    /\ gen.err = ErrNone => gen.key \notin InsertedKeys
    /\ UNCHANGED actorVars
    /\ InsertReturned(insertTriple(t, gen, ValueOf(Len(inserted) + 1)), gen,
                      ValueOf(Len(inserted) + 1))

NextGenerator ==
    \/ \E gen \in GeneratorResults : InsertGenerated(gen)
    \/ \E key \in FallibleGenKeys : Search(key)

SpecGenerator == Init /\ [][NextGenerator]_vars

\* ------------------------------------- the revision built by NewTree
\* The same tree as built by NewTree(degree, queueLength, keyGenerator), the
\* revision whose operations hand the caller a channel.  Its definitions
\* carry the suffix _p1 where the name is taken.

ErrInternalInconsistency == "InternalInconsistency"

\* what the caller of an operation holds when nothing is ever sent on the
\* channel it was given
NoReply == "NoReply"

\* make([]T, 0, cap)
Make(m, cap) ==
    IF cap = 0 THEN [m |-> m, s |-> EmptySlice]
    ELSE [m |-> [m EXCEPT !.arrays = Append(@, [j \in 1..cap |-> Nil])],
          s |-> [arr |-> Len(m.arrays) + 1, off |-> 0, len |-> 0, cap |-> cap]]

\* newTreeNode()
newTreeNode_p1(m) ==
    LET c == Make(m, m.degree + 1)
        k == Make(c.m, m.degree)
        v == Make(k.m, m.degree)
    IN [v.m EXCEPT !.nodeCount = @ + 1,
                   !.nodes = Append(@, [leaf |-> FALSE,
                                        keys |-> k.s,
                                        values |-> v.s,
                                        children |-> c.s,
                                        parent |-> Nil,
                                        nextLeaf |-> Nil])]

\* the clamp of NewTree
ClampDegree_p1(degree) == IF degree < 2 THEN 2 ELSE degree

\* NewTree: the root is allocated while t.degree is still 0
NewTree(degree) ==
    LET m == newTreeNode_p1([degree |-> 0,
                             root |-> 1,
                             nodeCount |-> 0,
                             nodes |-> <<>>,
                             arrays |-> <<>>,
                             panicked |-> FALSE,
                             hung |-> FALSE,
                             err |-> ErrNone])
    IN [m EXCEPT !.nodes[1].leaf = TRUE, !.degree = ClampDegree_p1(degree)]

\* the range loop of nodeForKey over the keys ks of the node the loop began
\* at, from the i-th key on; candidateNode is replaced in every iteration and
\* the next iteration indexes the children of the replacement
RECURSIVE RangeKeys_p1(_, _, _, _, _)
RangeKeys_p1(m, ks, i, cand, k) ==
    IF i > Len(ks) THEN cand
    ELSE IF cand = Nil THEN Panicked
    ELSE LET idx == IF keyCompare(k, ks[i]) = OrderedAscending THEN i - 1 ELSE i
         IN IF idx >= m.nodes[cand].children.len THEN Panicked
            ELSE RangeKeys_p1(m, ks, i + 1, At(m, m.nodes[cand].children, idx), k)

\* the outer loop of nodeForKey
RECURSIVE Loop_p1(_, _, _, _)
Loop_p1(m, cand, k, depth) ==
    IF cand = Panicked \/ cand = Nil THEN Panicked
    ELSE IF m.nodes[cand].leaf THEN cand
    ELSE IF depth > m.nodeCount \/ m.nodes[cand].keys.len = 0 THEN Hung
    ELSE Loop_p1(m, RangeKeys_p1(m, Elems(m, m.nodes[cand].keys), 1, cand, k), k, depth + 1)

nodeForKey(m, k) == Loop_p1(m, m.root, k, 0)

RECURSIVE recordValue_p1(_, _, _, _, _)
RECURSIVE splitNode_p1(_, _, _)

\* splitNode, the cut: newNode, just allocated, takes the keys from split on
\* and the values or children with them; n.keys is left as it was
SplitHalves_p1(m, n, newNode, split) ==
    LET node == m.nodes[n]
        m2 == [m EXCEPT !.nodes[newNode].leaf = node.leaf,
                        !.nodes[newNode].keys = SliceFrom(node.keys, split)]
    IN IF node.leaf
       THEN [m2 EXCEPT !.nodes[newNode].values = SliceFrom(node.values, split),
                       !.nodes[n].values = SliceTo(node.values, split)]
       ELSE [m2 EXCEPT !.nodes[newNode].children = SliceFrom(node.children, split),
                       !.nodes[n].children = SliceTo(node.children, split)]

\* splitNode, n.parent == nil: root, just allocated, becomes the root over n
\* and newNode
NewRoot_p1(m, root, n, newNode, first) ==
    LET rk == GoAppend(m, m.nodes[root].keys, <<first>>)
        rc == GoAppend(rk.m, m.nodes[root].children, <<n, newNode>>)
    IN [rc.m EXCEPT !.root = root,
                    !.nodes[root].leaf = FALSE,
                    !.nodes[root].keys = rk.s,
                    !.nodes[root].children = rc.s]

\* splitNode, the end: the error of the promotion, or the half key belongs to
SplitReturn_p1(m, n, newNode, key, first) ==
    IF m.panicked \/ m.err # ErrNone THEN [m |-> m, n |-> Nil]
    ELSE IF keyCompare(key, first) = OrderedAscending THEN [m |-> m, n |-> n]
    ELSE [m |-> m, n |-> newNode]

\* splitNode, the promotion of newNode.keys[0] into a new root or into n.parent
SplitPromote_p1(m, n, newNode, key) ==
    LET first == At(m, m.nodes[newNode].keys, 0)
        parent == m.nodes[n].parent
    IN IF parent = Nil
       THEN SplitReturn_p1(NewRoot_p1(newTreeNode_p1(m), NewNode(m) + 1, n, newNode, first),
                           n, newNode, key, first)
       ELSE SplitReturn_p1(recordValue_p1(m, first, newNode, TRUE, parent),
                           n, newNode, key, first)

\* splitNode(n, key): the tree it leaves and the node it returns
splitNode_p1(m, n, key) ==
    LET node == m.nodes[n]
        keyCount == node.keys.len
        split == keyCount \div 2
    IN
    IF keyCount < m.degree THEN [m |-> m, n |-> n]
    ELSE IF node.leaf /\ split > node.values.len THEN [m |-> Panic(m), n |-> Nil]
    ELSE IF ~node.leaf /\ split > node.children.len THEN [m |-> Panic(m), n |-> Nil]
    ELSE SplitPromote_p1(SplitHalves_p1(newTreeNode_p1(m), n, NewNode(m) + 1, split),
                         n, NewNode(m) + 1, key)

\* recordValue, place == -1: the key and the value or child are appended
RecordLast_p1(m, n, key, value, isNode) ==
    LET node == m.nodes[n]
        k == GoAppend(m, node.keys, <<key>>)
        m1 == [k.m EXCEPT !.nodes[n].keys = k.s]
    IN IF node.leaf
       THEN LET v == GoAppend(m1, node.values, <<value>>)
            IN [v.m EXCEPT !.nodes[n].values = v.s]
       ELSE IF isNode
       THEN LET c == GoAppend(m1, node.children, <<value>>)
            IN [c.m EXCEPT !.nodes[n].children = c.s]
       ELSE [m1 EXCEPT !.err = ErrInternalInconsistency]

\* recordValue, place found: the slices are made one longer in place, which
\* panics beyond their capacity, and the entry is shifted in
RecordAt_p1(m, n, key, value, isNode, place) ==
    LET node == m.nodes[n]
        keyCount == node.keys.len
        childCount == node.children.len
    IN IF keyCount + 1 > node.keys.cap THEN Panic(m)
       ELSE LET k == ShiftIn(m, SliceTo(node.keys, keyCount + 1), place, key)
                m1 == [k.m EXCEPT !.nodes[n].keys = k.s]
            IN IF node.leaf
               THEN IF keyCount + 1 > node.values.cap THEN Panic(m1)
                    ELSE LET v == ShiftIn(m1, SliceTo(node.values, keyCount + 1), place, value)
                         IN [v.m EXCEPT !.nodes[n].values = v.s]
               ELSE IF ~isNode THEN [m1 EXCEPT !.err = ErrInternalInconsistency]
               ELSE IF childCount + 1 > node.children.cap \/ place > childCount
               THEN Panic(m1)
               ELSE LET c == ShiftIn(m1, SliceTo(node.children, childCount + 1), place, value)
                    IN [c.m EXCEPT !.nodes[n].children = c.s]

\* recordValue after its call of splitNode, whose result is sp
RecordInto_p1(sp, key, value, isNode) ==
    IF sp.m.panicked \/ sp.m.err # ErrNone THEN sp.m
    ELSE LET place == FindInsert(Elems(sp.m, sp.m.nodes[sp.n].keys), key, 1)
         IN IF place = -1
            THEN RecordLast_p1(sp.m, sp.n, key, value, isNode)
            ELSE RecordAt_p1(sp.m, sp.n, key, value, isNode, place)

\* recordValue(key, value, n); the error it returns is left in err
recordValue_p1(m, key, value, isNode, n) ==
    RecordInto_p1(splitNode_p1(m, n, key), key, value, isNode)

\* insert(value) with key the key the generator returned
insert_p1(m, key, value) ==
    LET node == nodeForKey(m, key) IN
    IF node = Panicked THEN Panic(m)
    ELSE IF node = Hung THEN [m EXCEPT !.hung = TRUE]
    ELSE recordValue_p1(m, key, value, FALSE, node)

\* search(key): the TreeOpResult sent on the caller's channel
search_p1(m, key) ==
    LET node == nodeForKey(m, key) IN
    IF node = Panicked THEN [value |-> Nil, err |-> ErrPanic]
    ELSE IF node = Hung THEN [value |-> Nil, err |-> "hang"]
    ELSE ScanLeaf(m, node, key, 0)

\* delete(key): the tree it leaves and the error it sends
delete_p1(m, key) == [m |-> m, err |-> search_p1(m, key).err]

\* update(key, val): the tree it leaves; the body is empty and sends nothing
update_p1(m, key, value) == [m |-> m, err |-> NoReply]

Init_p1 ==
    /\ \E degree \in AskedDegrees : t = NewTree(degree)
    /\ inserted = <<>>
    /\ last = [op |-> "NewTree", key |-> Nil, value |-> Nil, err |-> ErrNone]
    /\ ActorInit

\* the outcome an operation leaves in the tree and hands its caller
Outcome(m, err) ==
    [m |-> IF err = ErrPanic THEN Panic(m)
           ELSE IF err = "hang" THEN [m EXCEPT !.hung = TRUE] ELSE m,
     err |-> err]

\* Insert(val)
Insert_p1(key) ==
    /\ Alive
    /\ key \notin InsertedKeys
    /\ UNCHANGED actorVars
    /\ LET value == ValueOf(Len(inserted) + 1)
           m == insert_p1(t, key, value)
           err == IF m.panicked THEN ErrPanic ELSE IF m.hung THEN "hang" ELSE m.err
       IN /\ t' = [m EXCEPT !.err = ErrNone]
          /\ inserted' = IF err = ErrNone THEN Append(inserted, <<key, value>>)
                         ELSE inserted
          /\ last' = [op |-> "Insert", key |-> key, value |-> value, err |-> err]

\* Search(key)
Search_p1(key) ==
    /\ Alive
    /\ LET r == search_p1(t, key)
       IN /\ last' = [op |-> "Search", key |-> key, value |-> r.value, err |-> r.err]
          /\ t' = Outcome(t, r.err).m
    /\ UNCHANGED inserted
    /\ UNCHANGED actorVars

\* Update(key, val)
Update_p1(key, value) ==
    /\ Alive
    /\ LET r == update_p1(t, key, value)
       IN /\ t' = Outcome(r.m, r.err).m
          /\ last' = [op |-> "Update", key |-> key, value |-> Nil, err |-> r.err]
    /\ UNCHANGED inserted
    /\ UNCHANGED actorVars

\* Delete(key)
Delete_p1(key) ==
    /\ Alive
    /\ LET r == delete_p1(t, key)
       IN /\ t' = Outcome(r.m, r.err).m
          /\ last' = [op |-> "Delete", key |-> key, value |-> Nil, err |-> r.err]
    /\ UNCHANGED inserted
    /\ UNCHANGED actorVars

Next_p1 ==
    \/ \E key \in GenKeys : Insert_p1(key)
    \/ \E key \in Keys : Search_p1(key)
    \/ \E key \in GenKeys, value \in UpdateValues : Update_p1(key, value)
    \/ \E key \in GenKeys : Delete_p1(key)

Spec_p1 == Init_p1 /\ [][Next_p1]_vars

\* ------------------------------------------ the worker and its callers
\* NewBTree starts one goroutine, processCommands.  A public operation makes
\* its own channel, sends a closure over the unbuffered commandQueue, and
\* waits on its channel; the worker receives one closure at a time in its
\* select and runs it, and the closure sends the result on that channel.

\* the key the test suite's generator returns at its n-th call: a counter
GenKey(n) == 2 * n

\* the keys the callers look up, update and delete: the first key the
\* generator hands out, absent until the first Insert has run
ActorKeys == {GenKey(1)}

\* the calls in progress or finished: every call passes a value of its own
Submitted ==
    Len(accepted) + Len(queue) + Cardinality({c \in Callers : callers[c].pc = "send"})

\* the closures caller c can send: the operation, its arguments, its channel
Commands(c) ==
    {[op |-> "Insert", key |-> Nil, value |-> ValueOf(Submitted + 1), caller |-> c]}
    \cup {[op |-> "Search", key |-> k, value |-> Nil, caller |-> c] : k \in ActorKeys}
    \cup {[op |-> "Update", key |-> k, value |-> ValueOf(0), caller |-> c] : k \in ActorKeys}
    \cup {[op |-> "Delete", key |-> k, value |-> Nil, caller |-> c] : k \in ActorKeys}

\* the end of insert: the tree m it leaves, and the triple it sends, which is
\* never sent when the handler panicked or did not return
Inserted(m, key, value) ==
    [m |-> m, key |-> key, value |-> value,
     err |-> IF m.panicked THEN ErrPanic ELSE IF m.hung THEN "hang" ELSE ErrNone]

\* the end of search, update and delete: the tree and the error of r, with
\* the key the call was about and the value sent
Answered(r, key, value) == [m |-> r.m, key |-> key, value |-> value, err |-> r.err]

\* command(): the closure cmd run on tree m after n calls of the generator;
\* the tree it leaves and the triple it sends on the caller's channel
RunCommand(m, n, cmd) ==
    IF cmd.op = "Insert"
    THEN Inserted(insert(m, GenKey(n + 1), cmd.value), GenKey(n + 1), cmd.value)
    ELSE IF cmd.op = "Search"
    THEN Answered(Outcome(m, search(m, cmd.key).err), cmd.key, search(m, cmd.key).value)
    ELSE IF cmd.op = "Update"
    THEN Answered(update(m, cmd.key, cmd.value), cmd.key, Nil)
    ELSE Answered(delete(m, cmd.key), cmd.key, Nil)

\* the worker as "go command()" would leave it: free for the next closure
\* while one is running
SelectingWhileRunning(w) == w.pc \in {"select", "command"}

\* the worker is blocked in the select of processCommands
Selecting(w) == w.pc = "select"

\* houseKeeping()
houseKeeping(m) == m

\* a public operation up to its send: ch := make(chan *bTreeTriple), and the
\* closure is ready
Call(c, cmd) ==
    /\ Alive
    /\ callers[c].pc = "idle"
    /\ Submitted < MaxCommands
    /\ callers' = [callers EXCEPT ![c] = [pc |-> "send", cmd |-> cmd]]
    /\ UNCHANGED <<t, inserted, last, worker, queue, accepted, access>>

\* t.commandQueue <- func() {..} meets "case command := <-t.commandQueue":
\* the channel has no buffer, the closure passes from hand to hand and the
\* caller goes on to wait on its channel
Handoff(c) ==
    /\ Alive
    /\ callers[c].pc = "send"
    /\ Selecting(worker)
    /\ worker' = [worker EXCEPT !.pc = "command", !.cmd = callers[c].cmd]
    /\ callers' = [callers EXCEPT ![c].pc = "recv"]
    /\ accepted' = Append(accepted, [cmd |-> callers[c].cmd, done |-> FALSE,
                                     to |-> Nil, value |-> Nil, err |-> ErrNone])
    /\ UNCHANGED <<t, inserted, last, queue, access>>

\* command(): the handler runs on the worker and sends the triple on the
\* channel of the call, where the caller is waiting; a panic ends the process
Command ==
    /\ worker.pc = "command"
    /\ LET cmd == worker.cmd
           r == RunCommand(t, Len(inserted), cmd)
           crashed == r.err \in {ErrPanic, "hang"}
       IN /\ t' = r.m
          /\ inserted' = IF cmd.op = "Insert" /\ ~crashed
                         THEN Append(inserted, <<r.key, r.value>>) ELSE inserted
          /\ last' = [op |-> cmd.op, key |-> r.key, value |-> r.value, err |-> r.err]
          /\ worker' = IF crashed THEN [worker EXCEPT !.pc = "crashed"]
                       ELSE [worker EXCEPT !.pc = "select", !.cmd = NoCmd]
          /\ callers' = IF crashed THEN callers
                        ELSE [callers EXCEPT ![cmd.caller] = [pc |-> "idle", cmd |-> NoCmd]]
          /\ accepted' = [accepted EXCEPT ![Len(accepted)] =
                            [@ EXCEPT !.done = ~crashed,
                                      !.to = IF crashed THEN Nil ELSE cmd.caller,
                                      !.value = IF cmd.op = "Insert" THEN r.key ELSE r.value,
                                      !.err = r.err]]
          /\ access' = [by |-> Worker, racing |-> FALSE, count |-> r.m.nodeCount]
    /\ UNCHANGED queue

\* "case <-timer": the tick is taken in the select, between two commands
Tick ==
    /\ Alive
    /\ Selecting(worker)
    /\ worker' = [worker EXCEPT !.pc = "houseKeeping"]
    /\ UNCHANGED <<t, inserted, last, callers, queue, accepted, access>>

\* t.houseKeeping() returns and the loop comes back to the select
HouseKeeping ==
    /\ worker.pc = "houseKeeping"
    /\ t' = houseKeeping(t)
    /\ worker' = [worker EXCEPT !.pc = "select"]
    /\ UNCHANGED <<inserted, last, callers, queue, accepted, access>>

\* the values a read of t.nodeCount on another goroutine can return while
\* the worker runs cmd: the read is not ordered with the writes of
\* newTreeNode, so it sees any of the counts the command passes through
RacingCounts(m, n, cmd) == m.nodeCount..RunCommand(m, n, cmd).m.nodeCount

\* NodeCount(): return t.nodeCount, read on the goroutine of the caller
NodeCount(c) ==
    /\ Alive
    /\ callers[c].pc = "idle"
    /\ \E count \in IF worker.pc = "command"
                    THEN RacingCounts(t, Len(inserted), worker.cmd)
                    ELSE {t.nodeCount} :
          access' = [by |-> c, racing |-> worker.pc = "command", count |-> count]
    /\ UNCHANGED <<t, inserted, last, worker, callers, queue, accepted>>

NextActor ==
    \/ \E c \in Callers : \E cmd \in Commands(c) : Call(c, cmd)
    \/ \E c \in Callers : Handoff(c)
    \/ Command
    \/ Tick
    \/ HouseKeeping
    \/ \E c \in Callers : NodeCount(c)

SpecActor == Init /\ [][NextActor]_vars

\* ------------------- the worker and its callers, in the revision of NewTree
\* NewTree starts the goroutine start, the same loop over a buffered
\* operationQueue; a public operation returns the channel of its call, on
\* which its caller then waits, and Stop sends on the unbuffered stop channel.

\* the clamp of queueLength in NewTree
ClampQueueLength(queueLength) == IF queueLength < 1 THEN 1 ELSE queueLength

\* NewTree(degree, queueLength, keyGenerator), with "go t.start()"
Init_p1Actor ==
    /\ \E degree \in AskedDegrees : t = NewTree(degree)
    /\ inserted = <<>>
    /\ last = [op |-> "NewTree", key |-> Nil, value |-> Nil, err |-> ErrNone]
    /\ \E queueLength \in 0..MaxQueueLength :
          worker = [pc |-> "select", cmd |-> NoCmd, finals |-> 0,
                    queueLength |-> ClampQueueLength(queueLength)]
    /\ callers = [c \in Callers |-> [pc |-> "idle", cmd |-> NoCmd]]
    /\ queue = <<>>
    /\ accepted = <<>>
    /\ access = [by |-> Worker, racing |-> FALSE, count |-> t.nodeCount]

\* the end of insert: the tree m it leaves, and the TreeOpResult it sends
\* with the error of recordValue, never sent when the handler panicked or did
\* not return
Inserted_p1(m, key, value) ==
    [m |-> [m EXCEPT !.err = ErrNone], key |-> key, value |-> value,
     err |-> IF m.panicked THEN ErrPanic ELSE IF m.hung THEN "hang" ELSE m.err]

\* op(): the closure cmd run on tree m after n calls of the generator; the
\* tree it leaves and the TreeOpResult it sends on the channel of the call,
\* NoReply when it returns without sending
RunCommand_p1(m, n, cmd) ==
    IF cmd.op = "Insert"
    THEN Inserted_p1(insert_p1(m, GenKey(n + 1), cmd.value), GenKey(n + 1), cmd.value)
    ELSE IF cmd.op = "Search"
    THEN Answered(Outcome(m, search_p1(m, cmd.key).err), cmd.key, search_p1(m, cmd.key).value)
    ELSE IF cmd.op = "Update"
    THEN Answered(update_p1(m, cmd.key, cmd.value), cmd.key, Nil)
    ELSE Answered(Outcome(m, delete_p1(m, cmd.key).err), cmd.key, Nil)

\* a stop signal that leaves listening as it was
StopIgnored(w) == w

\* "case <-t.stop: listening = false"
StopReceived(w) == [w EXCEPT !.pc = "stopped"]

\* Stop() has been called
StopCalled ==
    \/ worker.pc \in {"stopped", "terminated"}
    \/ \E c \in Callers : callers[c].pc = "stop"

\* a public operation up to its send: ch := make(chan *TreeOpResult)
Call_p1(c, cmd) ==
    /\ Alive
    /\ ~StopCalled
    /\ callers[c].pc = "idle"
    /\ Submitted < MaxCommands
    /\ callers' = [callers EXCEPT ![c] = [pc |-> "send", cmd |-> cmd]]
    /\ UNCHANGED <<t, inserted, last, worker, queue, accepted, access>>

\* t.operationQueue <- func() {..}: the closure goes into the buffer when
\* there is room, and the caller goes on to wait on the channel returned
Enqueue_p1(c) ==
    /\ callers[c].pc = "send"
    /\ Len(queue) < worker.queueLength
    /\ queue' = Append(queue, callers[c].cmd)
    /\ callers' = [callers EXCEPT ![c].pc = "recv"]
    /\ UNCHANGED <<t, inserted, last, worker, accepted, access>>

\* "case op := <-t.operationQueue"
Receive_p1 ==
    /\ Alive
    /\ Selecting(worker)
    /\ queue # <<>>
    /\ worker' = [worker EXCEPT !.pc = "command", !.cmd = Head(queue)]
    /\ queue' = Tail(queue)
    /\ accepted' = Append(accepted, [cmd |-> Head(queue), done |-> FALSE,
                                     to |-> Nil, value |-> Nil, err |-> ErrNone])
    /\ UNCHANGED <<t, inserted, last, callers, access>>

\* op(): the handler runs on the worker; when it sends, the caller waiting on
\* the channel of the call has its result, and when it returns without
\* sending, that caller goes on waiting
Command_p1 ==
    /\ worker.pc = "command"
    /\ LET cmd == worker.cmd
           r == RunCommand_p1(t, Len(inserted), cmd)
           crashed == r.err \in {ErrPanic, "hang"}
           sent == ~crashed /\ r.err # NoReply
       IN /\ t' = r.m
          /\ inserted' = IF cmd.op = "Insert" /\ r.err = ErrNone
                         THEN Append(inserted, <<r.key, r.value>>) ELSE inserted
          /\ last' = [op |-> cmd.op, key |-> r.key, value |-> r.value, err |-> r.err]
          /\ worker' = IF crashed THEN [worker EXCEPT !.pc = "crashed"]
                       ELSE [worker EXCEPT !.pc = "select", !.cmd = NoCmd]
          /\ callers' = IF sent
                        THEN [callers EXCEPT ![cmd.caller] = [pc |-> "idle", cmd |-> NoCmd]]
                        ELSE callers
          /\ accepted' = [accepted EXCEPT ![Len(accepted)] =
                            [@ EXCEPT !.done = sent,
                                      !.to = IF sent THEN cmd.caller ELSE Nil,
                                      !.value = IF cmd.op = "Insert" THEN r.key ELSE r.value,
                                      !.err = r.err]]
          /\ access' = [by |-> Worker, racing |-> FALSE, count |-> r.m.nodeCount]
    /\ UNCHANGED queue

\* Stop() up to its send
StopCall_p1(c) ==
    /\ Alive
    /\ ~StopCalled
    /\ callers[c].pc = "idle"
    /\ callers' = [callers EXCEPT ![c].pc = "stop"]
    /\ UNCHANGED <<t, inserted, last, worker, queue, accepted, access>>

\* t.stop <- true meets "case <-t.stop": Stop returns and the loop ends
Stop_p1(c) ==
    /\ Alive
    /\ callers[c].pc = "stop"
    /\ Selecting(worker)
    /\ worker' = StopReceived(worker)
    /\ callers' = [callers EXCEPT ![c].pc = "idle"]
    /\ UNCHANGED <<t, inserted, last, queue, accepted, access>>

\* the t.houseKeeping() after the loop, and the end of the goroutine
FinalHouseKeeping_p1 ==
    /\ worker.pc = "stopped"
    /\ t' = houseKeeping(t)
    /\ worker' = [worker EXCEPT !.pc = "terminated", !.finals = @ + 1]
    /\ UNCHANGED <<inserted, last, callers, queue, accepted, access>>

\* Tick and HouseKeeping: the timer case of start is that of processCommands
Next_p1Actor ==
    \/ \E c \in Callers : \E cmd \in Commands(c) : Call_p1(c, cmd)
    \/ \E c \in Callers : Enqueue_p1(c)
    \/ Receive_p1
    \/ Command_p1
    \/ Tick
    \/ HouseKeeping
    \/ \E c \in Callers : StopCall_p1(c)
    \/ \E c \in Callers : Stop_p1(c)
    \/ FinalHouseKeeping_p1

Spec_p1Actor == Init_p1Actor /\ [][Next_p1Actor]_vars

\* the worker is a goroutine of its own: once out of its loop it is runnable
\* and waits for nothing, so the scheduler lets it run its last statement
FairSpec_p1Actor == Spec_p1Actor /\ WF_vars(FinalHouseKeeping_p1)

\* ------------------------------------------------- reading the tree state

Nodes == 1..t.nodeCount

KeysOf(n) == Elems(t, t.nodes[n].keys)

ValuesOf(n) == Elems(t, t.nodes[n].values)

ChildrenOf(n) == IF t.nodes[n].leaf THEN <<>> ELSE Elems(t, t.nodes[n].children)

Range(f) == {f[i] : i \in DOMAIN f}

\* the nodes reachable from the nodes of S through children
RECURSIVE ReachFrom(_)
ReachFrom(S) ==
    LET S2 == S \cup {c \in UNION {Range(ChildrenOf(n)) : n \in S} : c # Nil}
    IN IF S2 = S THEN S ELSE ReachFrom(S2)

Reachable == ReachFrom({t.root})

\* every key stored in a node of the subtree of n
SubtreeKeys(n) == UNION {Range(KeysOf(x)) : x \in ReachFrom({n})}

InternalNodes == {n \in Nodes : ~t.nodes[n].leaf}

Leaves == {n \in Nodes : t.nodes[n].leaf}

\* the value that was inserted with key
InsertedValue(key) ==
    LET i == CHOOSE i \in 1..Len(inserted) : inserted[i][1] = key IN inserted[i][2]

StrictlyAscending(ks) == \A i \in 1..(Len(ks) - 1) : ks[i] < ks[i + 1]

\* the keys were generated in ascending order
AscendingInserts == StrictlyAscending([i \in 1..Len(inserted) |-> inserted[i][1]])

\* some Insert has split an internal node
InternalSplit == \E n \in InternalNodes : n # t.root /\ Alive

\* ---------------------------------------------------------------- claims

\* C1: a Search on an inserted key (distinct keys, any order) returns the
\* value inserted with that key and no error.
C1_SearchFindsInserted ==
    (last.op = "Search" /\ last.key \in InsertedKeys)
        => (last.err = ErrNone /\ last.value = InsertedValue(last.key))

\* C2: after a completed Insert every internal node satisfies the separator
\* invariant: every key under children[i] is less than keys[i], and every key
\* under the last child is greater than or equal to the last key.
C2_SeparatorInvariant ==
    Alive =>
        \A p \in Reachable \cap InternalNodes :
            LET ks == KeysOf(p)
                cs == ChildrenOf(p)
            IN /\ \A i \in 1..Len(ks) :
                    (i <= Len(cs) /\ cs[i] # Nil)
                        => \A k \in SubtreeKeys(cs[i]) : k < ks[i]
               /\ (Len(ks) > 0 /\ Len(cs) > 0 /\ cs[Len(cs)] # Nil)
                    => \A k \in SubtreeKeys(cs[Len(cs)]) : k >= ks[Len(ks)]

\* C3: after any completed Insert every leaf holds at most degree - 1 keys
\* and every internal node at most degree keys.
C3_Capacity ==
    Alive =>
        \A n \in Nodes :
            t.nodes[n].keys.len <= (IF t.nodes[n].leaf THEN t.degree - 1 ELSE t.degree)

\* an Insert has split a leaf and, through it, an internal node, and has left
\* a full leaf
C3_Witness ==
    /\ Alive
    /\ last.op = "Insert"
    /\ InternalSplit
    /\ \E n \in Leaves : t.nodes[n].keys.len = t.degree - 1

\* C4: after a completed Insert every internal node has exactly one more
\* child than it has keys, and at least one key.
C4_ChildCount ==
    Alive =>
        \A n \in InternalNodes :
            /\ t.nodes[n].children.len = t.nodes[n].keys.len + 1
            /\ t.nodes[n].keys.len >= 1

\* the leaf the descent through every first child ends in; Nil when the
\* descent leaves the tree
RECURSIVE LeftmostFrom(_, _)
LeftmostFrom(n, depth) ==
    IF n = Nil \/ depth > t.nodeCount THEN Nil
    ELSE IF t.nodes[n].leaf THEN n
    ELSE IF t.nodes[n].children.len = 0 THEN Nil
    ELSE LeftmostFrom(ChildrenOf(n)[1], depth + 1)

LeftmostLeaf == LeftmostFrom(t.root, 0)

\* the leaves met by following next from n, until nil or a leaf met before
RECURSIVE ChainFrom(_, _)
ChainFrom(n, acc) ==
    IF n = Nil \/ n \in Range(acc) THEN acc
    ELSE ChainFrom(t.nodes[n].next, Append(acc, n))

LeafChain == ChainFrom(LeftmostLeaf, <<>>)

\* the keys of the leaves of chain, in chain order
RECURSIVE ChainKeys(_)
ChainKeys(chain) ==
    IF chain = <<>> THEN <<>> ELSE KeysOf(Head(chain)) \o ChainKeys(Tail(chain))

\* C5: following next from the leftmost leaf visits every leaf of the tree
\* exactly once and yields all stored keys in strictly ascending order, each
\* leaf being the previous of its next (a split of a leaf that has a
\* successor links the new sibling between the two).
C5_LeafChainComplete ==
    Alive =>
        /\ Range(LeafChain) = Reachable \cap Leaves
        /\ t.nodes[LeafChain[Len(LeafChain)]].next = Nil
        /\ StrictlyAscending(ChainKeys(LeafChain))
        /\ Range(ChainKeys(LeafChain)) = InsertedKeys
        /\ \A n \in Leaves :
              t.nodes[n].next # Nil => t.nodes[t.nodes[n].next].previous = n

\* C6: the keys of every node are strictly ascending, and in every leaf
\* values is as long as keys, values[i] being the value inserted with keys[i].
C6_NodeKeysSortedValuesAligned ==
    Alive =>
        \A n \in Nodes :
            /\ StrictlyAscending(KeysOf(n))
            /\ t.nodes[n].leaf =>
                  /\ t.nodes[n].values.len = t.nodes[n].keys.len
                  /\ \A i \in 1..t.nodes[n].keys.len :
                        /\ KeysOf(n)[i] \in InsertedKeys
                        /\ ValuesOf(n)[i] = InsertedValue(KeysOf(n)[i])

\* the depths at which the descents from n, itself at depth d, reach a leaf;
\* -1 stands for a descent that leaves the tree or runs into a cycle
RECURSIVE LeafDepths(_, _)
LeafDepths(n, d) ==
    IF n = Nil \/ d > t.nodeCount THEN {-1}
    ELSE IF t.nodes[n].leaf THEN {d}
    ELSE IF t.nodes[n].children.len = 0 THEN {-1}
    ELSE UNION {LeafDepths(c, d + 1) : c \in Range(ChildrenOf(n))}

\* the places <<p, i>> where n is the i-th child of p
ParentSlots(n) ==
    {<<p, i>> \in InternalNodes \X (1..(t.degree + 2)) :
        i <= t.nodes[p].children.len /\ ChildrenOf(p)[i] = n}

\* C7: all leaves are at the same depth, every reachable node is reachable by
\* exactly one path, and every node that holds keys is reachable from the root.
C7_Balanced ==
    Alive =>
        /\ Cardinality(LeafDepths(t.root, 0)) = 1
        /\ -1 \notin LeafDepths(t.root, 0)
        /\ ParentSlots(t.root) = {}
        /\ \A n \in Reachable \ {t.root} : Cardinality(ParentSlots(n)) = 1
        /\ \A n \in Nodes : t.nodes[n].keys.len > 0 => n \in Reachable

\* C8: NodeCount is 1 after construction, never decreases, and always equals
\* the number of nodes allocated: 1, plus 1 for every split, plus 1 more for
\* every split of the root.
C8_NodeCount ==
    /\ [](/\ t.nodeCount = Len(t.nodes)
          /\ t.nodeCount = 1 + t.splits + t.rootSplits
          /\ last.op = "NewBTree" => t.nodeCount = 1)
    /\ [][/\ t'.nodeCount >= t.nodeCount
          /\ t'.nodeCount - t.nodeCount
                = (t'.splits - t.splits) + (t'.rootSplits - t.rootSplits)]_vars

\* an Insert has split a leaf and an internal node below a new root
C8_Witness ==
    /\ Alive
    /\ last.op = "Insert"
    /\ t.rootSplits = 2
    /\ t.splits > t.rootSplits

\* C9: a Search for a key that was never inserted returns NotFound and leaves
\* the tree, NodeCount included, unchanged.
C9_SearchAbsentNotFound ==
    [][(last'.op = "Search" /\ last'.key \notin InsertedKeys)
          => (last'.err = ErrNotFound /\ t' = t)]_vars

\* C10: Update and Delete, with any key and value in any reachable state,
\* return NotImplemented to the caller, allocate no node, and leave NodeCount
\* and every stored key and value unchanged.
C10_UpdateDeleteNotImplemented ==
    [][(last'.op \in {"Update", "Delete"})
          => (last'.err = ErrNotImplemented /\ t' = t /\ inserted' = inserted)]_vars

\* the commands the worker has run to their end, a crash included
Executed == IF worker.pc = "command" THEN Len(accepted) - 1 ELSE Len(accepted)

\* the first k accepted commands run one after the other on a new tree of
\* the same degree: the tree, the generator's calls and the results
RECURSIVE SequentialRun(_)
SequentialRun(k) ==
    IF k = 0 THEN [m |-> NewBTree(t.degree), n |-> 0, results |-> <<>>]
    ELSE LET prev == SequentialRun(k - 1)
             cmd == accepted[k].cmd
             r == RunCommand(prev.m, prev.n, cmd)
         IN [m |-> r.m,
             n |-> IF cmd.op = "Insert" THEN prev.n + 1 ELSE prev.n,
             results |-> Append(prev.results,
                                [value |-> IF cmd.op = "Insert" THEN r.key ELSE r.value,
                                 err |-> r.err])]

\* C11: with callers submitting concurrently, the worker runs the commands
\* one at a time in the order it accepted them: only the command accepted
\* last can be unfinished, and the tree and every result are those of running
\* the accepted commands sequentially in that order.
C11_Linearizable ==
    /\ \A i \in 1..(Len(accepted) - 1) : accepted[i].done
    /\ worker.pc \in {"select", "houseKeeping"} =>
          \A i \in 1..Len(accepted) : accepted[i].done
    /\ LET run == SequentialRun(Executed)
       IN /\ t = run.m
          /\ \A i \in 1..Executed :
                /\ accepted[i].value = run.results[i].value
                /\ accepted[i].err = run.results[i].err

\* the callers have made all their calls and both had commands accepted; an
\* Insert split the root and a Search found its key
C11_Witness ==
    /\ Len(accepted) = MaxCommands
    /\ worker.pc = "select"
    /\ {accepted[i].to : i \in 1..Len(accepted)} = Callers
    /\ t.nodeCount > 1
    /\ \E i \in 1..Len(accepted) :
          accepted[i].cmd.op = "Search" /\ accepted[i].err = ErrNone
    /\ \E c \in Callers : callers[c].pc = "idle"

\* C12: in every interleaving the fields of the tree are read and written by
\* the worker only: no caller reads them on its own thread, NodeCount
\* included, while the worker is running a command.
C12_TreeStateOnlyOnWorker == ~(access.by \in Callers /\ access.racing)

\* C13: every Insert, Search, Update or Delete the worker has run has sent
\* exactly one result, on the channel of that call and so to the caller that
\* made it; no caller is left waiting on a channel nothing will be sent on.
C13_EveryCallAnswered ==
    \A i \in 1..Executed :
        /\ accepted[i].done
        /\ accepted[i].to = accepted[i].cmd.caller

\* C15: the worker starts Running; the stop signal is consumed in the select
\* and moves it to Stopped; from there it runs no command, runs houseKeeping
\* once and terminates, which it always comes to do; a tick is taken only
\* between two commands; and no run of houseKeeping, periodic or final,
\* changes the tree.
C15_StopLifecycle ==
    /\ worker.pc = "select"
    /\ (worker.pc = "stopped") ~> (worker.pc = "terminated")
    /\ [](worker.finals = IF worker.pc = "terminated" THEN 1 ELSE 0)
    /\ [][/\ (\E c \in Callers : callers[c].pc = "stop" /\ callers'[c].pc # "stop")
                => (worker.pc = "select" /\ worker'.pc = "stopped")
          /\ worker.pc = "stopped"
                => /\ worker' = worker \/ worker'.pc = "terminated"
                   /\ UNCHANGED <<t, inserted, last, accepted>>
          /\ worker.pc = "terminated" => UNCHANGED <<worker, t, inserted, last, accepted>>
          /\ (worker'.pc = "houseKeeping" /\ worker.pc # "houseKeeping")
                => (worker.pc = "select" /\ worker.cmd = NoCmd)
          /\ worker.pc = "houseKeeping"
                => /\ worker' = worker \/ worker'.pc = "select"
                   /\ UNCHANGED <<t, inserted, last, accepted>>]_vars

\* the worker has terminated after its final houseKeeping, with Inserts run
\* before the stop and a command still in the queue that was never run
C15_Witness ==
    /\ worker.pc = "terminated"
    /\ worker.finals = 1
    /\ inserted # <<>>
    /\ queue # <<>>

\* C14: no operation ends the worker: on every reachable tree, trees whose
\* internal nodes have split included, every operation returns a value or a
\* typed error, nothing panics or fails to return, and the worker lives on to
\* run and answer what follows.
C14_NoOperationCrashes ==
    /\ ~t.panicked
    /\ ~t.hung
    /\ worker.pc # "crashed"
    /\ last.err \in {ErrNone, ErrNotFound, ErrNotImplemented, ErrInternalInconsistency}

\* C16: on a new tree of degree d fed distinct ascending keys, the root leaf
\* takes the first d - 1 Inserts with NodeCount 1; the d-th Insert splits it
\* once under a new one-key root, NodeCount 3; with d = 4 the tree after 5
\* Inserts has 3 nodes: a root with one key over leaves of 2 and 3 keys.
C16_AscendingFill ==
    (Alive /\ AscendingInserts) =>
        /\ Len(inserted) < t.degree =>
              /\ t.nodeCount = 1
              /\ t.nodes[t.root].leaf
              /\ KeysOf(t.root) = [i \in 1..Len(inserted) |-> inserted[i][1]]
        /\ Len(inserted) = t.degree =>
              /\ t.nodeCount = 3
              /\ t.splits = 1 /\ t.rootSplits = 1
              /\ ~t.nodes[t.root].leaf
              /\ Len(KeysOf(t.root)) = 1
              /\ Len(ChildrenOf(t.root)) = 2
              /\ \A i \in 1..2 : t.nodes[ChildrenOf(t.root)[i]].leaf
              /\ Len(KeysOf(ChildrenOf(t.root)[1])) = t.degree \div 2
              /\ Len(KeysOf(ChildrenOf(t.root)[2])) = t.degree - (t.degree \div 2)
        /\ (t.degree = 4 /\ Len(inserted) = 5) =>
              /\ t.nodeCount = 3
              /\ Len(KeysOf(t.root)) = 1
              /\ Len(ChildrenOf(t.root)) = 2
              /\ Len(KeysOf(ChildrenOf(t.root)[1])) = 2
              /\ Len(KeysOf(ChildrenOf(t.root)[2])) = 3

\* the fifth Insert into a tree of degree 4 has returned
C16_Witness ==
    /\ Alive
    /\ t.degree = 4
    /\ Len(inserted) = 5
    /\ last.op = "Insert"
    /\ AscendingInserts

\* C17: a tree asked for with a degree below the minimum has degree 3: three
\* Inserts of distinct keys make exactly one split and 3 nodes, root and two
\* leaves; after a fourth the earlier root and leaves are still part of the
\* tree and a Search finds each of the 4 keys with its value.
C17_ClampedDegreeScenario ==
    (Alive /\ t.degree = MIN_DEGREE) =>
        /\ Len(inserted) < 3 => t.nodeCount = 1
        /\ Len(inserted) = 3 =>
              /\ t.nodeCount = 3
              /\ t.splits = 1
              /\ Reachable \cap Leaves = {1, 2}
        /\ Len(inserted) = 4 =>
              /\ {1, 2, 3} \subseteq Reachable
              /\ \A i \in 1..4 :
                    search(t, inserted[i][1]) = [value |-> inserted[i][2], err |-> ErrNone]

\* C18: for every split the last Insert made, of a leaf or of an internal
\* node, at the root or below it: the left node keeps exactly the keys below
\* the split point (leaves: degree / 2; internal nodes: degree / 2 + degree
\* mod 2) and the new sibling the rest; the first key of the sibling is a key
\* of an internal node that has the sibling as a child; and every key in the
\* subtree of the left node is less than every key in the subtree of the
\* sibling.
C18_SplitHalves ==
    Alive =>
        \A i \in 1..Len(t.splitLog) :
            LET e == t.splitLog[i] IN
            /\ e.before = e.left \o e.right
            /\ Len(e.left) = (IF e.leaf THEN t.degree \div 2
                              ELSE (t.degree \div 2) + (t.degree % 2))
            /\ e.right # <<>>
            /\ \E p \in InternalNodes :
                  /\ e.right[1] \in Range(KeysOf(p))
                  /\ e.sibling \in Range(ChildrenOf(p))
            /\ \A a \in e.leftSubtree, b \in e.rightSubtree : a < b

\* C19: after a completed Insert the parent references agree with the
\* children: the root is the only node whose parent is nil, and every child of
\* an internal node p has p as its parent, the halves of a root split and the
\* children moved to the new sibling of an internal split included.
C19_ParentReferences ==
    Alive =>
        /\ \A n \in Nodes : (t.nodes[n].parent = Nil) <=> (n = t.root)
        /\ \A p \in InternalNodes :
              \A c \in Range(ChildrenOf(p)) : c # Nil /\ t.nodes[c].parent = p

\* the keys and values leaf n of m held when recordValue had placed the new
\* pair, before splitNode cut them
LeafAfterRecord(m, n) ==
    IF \E i \in 1..Len(m.splitLog) : m.splitLog[i].n = n
    THEN LET e == m.splitLog[CHOOSE i \in 1..Len(m.splitLog) : m.splitLog[i].n = n]
         IN [keys |-> e.before, values |-> e.beforeValues]
    ELSE [keys |-> Elems(m, m.nodes[n].keys), values |-> Elems(m, m.nodes[n].values)]

\* s with x put before the element at position pos
PutAt(s, pos, x) == SubSeq(s, 1, pos - 1) \o <<x>> \o SubSeq(s, pos, Len(s))

\* the positions of key in the keys ks
Equals(ks, key) == {i \in 1..Len(ks) : keyCompare(key, ks[i]) = OrderedSame}

FirstEqual(ks, key) == CHOOSE i \in Equals(ks, key) : \A j \in Equals(ks, key) : i <= j

LastEqual(ks, key) == CHOOSE i \in Equals(ks, key) : \A j \in Equals(ks, key) : i >= j

\* this step is an Insert that returned, with a key its target leaf held
DuplicateInserted ==
    /\ Alive
    /\ inserted' = Append(inserted, <<last'.key, last'.value>>)
    /\ Equals(KeysOf(findNodeForKey(t, last'.key)), last'.key) # {}

\* the target leaf of this step's Insert holds, once the pair is recorded,
\* the pairs it held with the new pair before position pos
PlacedAt(pos) ==
    LET n == findNodeForKey(t, last'.key)
    IN /\ LeafAfterRecord(t', n).keys = PutAt(KeysOf(n), pos, last'.key)
       /\ LeafAfterRecord(t', n).values = PutAt(ValuesOf(n), pos, last'.value)

\* C20 as stated: Insert never rejects a duplicate key: when the generated
\* key equals a key already in the target leaf, the new pair is placed
\* immediately before the first existing equal key, so a Search for that key
\* after the Insert returns the value of the later insert.
C20_DuplicateBeforeFirstEqual ==
    [][DuplicateInserted =>
          /\ last'.err = ErrNone
          /\ PlacedAt(FirstEqual(KeysOf(findNodeForKey(t, last'.key)), last'.key))
          /\ search(t', last'.key) = [value |-> last'.value, err |-> ErrNone]]_vars

\* C20, amended: Insert never rejects a duplicate key: when the generated key
\* equals a key already in the target leaf, the new pair is placed
\* immediately after the last existing equal key, so a Search for that key
\* after the Insert, which returns the first match in scan order, returns
\* the value it returned before, that of the earlier insert, whenever the
\* Insert did not split the leaf.
C20_DuplicateAfterLastEqual ==
    [][DuplicateInserted =>
          /\ last'.err = ErrNone
          /\ PlacedAt(LastEqual(KeysOf(findNodeForKey(t, last'.key)), last'.key) + 1)
          /\ t'.splitLog = <<>> =>
                /\ search(t', last'.key) = search(t, last'.key)
                /\ search(t', last'.key).value # last'.value]_vars

\* an Insert of a key used before has returned without a split, and a Search
\* for the key finds the value of the first insert of it
C20_Witness ==
    /\ Alive
    /\ last.op = "Insert"
    /\ last.err = ErrNone
    /\ t.splitLog = <<>>
    /\ Len(inserted) >= 2
    /\ inserted[Len(inserted)] = <<last.key, last.value>>
    /\ \E i \in 1..(Len(inserted) - 1) :
          /\ inserted[i][1] = last.key
          /\ \A j \in 1..(i - 1) : inserted[j][1] # last.key
          /\ search(t, last.key) = [value |-> inserted[i][2], err |-> ErrNone]

\* what node n of m holds: its keys, its values and its children
Contents(m, n) ==
    [keys |-> Elems(m, m.nodes[n].keys),
     values |-> Elems(m, m.nodes[n].values),
     children |-> Elems(m, m.nodes[n].children)]

\* this step is an Insert that returned without splitting a node
InsertedWithoutSplit ==
    /\ Alive
    /\ inserted' = Append(inserted, <<last'.key, last'.value>>)
    /\ t'.splitLog = <<>>

\* C21: an Insert that does not overflow its target leaf changes only that
\* leaf: every other node holds the keys, values and children it held before,
\* the right sibling that shares a backing array with the leaf included.
C21_InsertChangesOnlyTargetLeaf ==
    [][InsertedWithoutSplit =>
          /\ t'.nodeCount = t.nodeCount
          /\ \A n \in Nodes \ {findNodeForKey(t, last'.key)} :
                Contents(t', n) = Contents(t, n)]_vars

\* this step is a call of Insert with the fallible generator
InsertCalled == last'.op = "Insert" /\ vars' # vars

====
